---- MODULE Spec2Model ----
(***************************************************************************)
(* Optiwiz Header Maker: translation of a decoded spreadsheet (cells,      *)
(* styles, merged ranges) into the page_header YAML document, as done by   *)
(* generate_yaml_from_file and build_yaml_string in src/app.py.            *)
(*                                                                         *)
(* Text is modelled as a sequence of one-character strings, so that        *)
(* strip(), split(':'), upper(), lower(), slicing and quoting are computed *)
(* and not assumed.  A Python value (None, str, int, bool) is a record     *)
(* with the same four fields for every kind, so any two are comparable.    *)
(***************************************************************************)
EXTENDS Integers, Sequences, FiniteSets, TLC

VARIABLES sheet, pc, max_col, row_idx, all_rows_data, warnings, yaml_string

vars == <<sheet, pc, max_col, row_idx, all_rows_data, warnings, yaml_string>>

(***************************************************************************)
(* Bounds of the model                                                     *)
(***************************************************************************)
MaxRows == 3
MaxCols == 3

(***************************************************************************)
(* Python values                                                           *)
(***************************************************************************)
PyNone == [kind |-> "none", text |-> <<>>, num |-> 0, flag |-> FALSE]
PyStr(t) == [kind |-> "str", text |-> t, num |-> 0, flag |-> FALSE]
PyInt(n) == [kind |-> "int", text |-> <<>>, num |-> n, flag |-> FALSE]
PyBool(b) == [kind |-> "bool", text |-> <<>>, num |-> 0, flag |-> b]
\* the nested mapping {'from_to': coord} stored under the key merge
PyMerge(t) == [kind |-> "merge", text |-> t, num |-> 0, flag |-> FALSE]

\* Python truthiness: bool(v)
Truthy(v) ==
    CASE v.kind = "none" -> FALSE
      [] v.kind = "str" -> Len(v.text) > 0
      [] v.kind = "int" -> v.num # 0
      [] v.kind = "bool" -> v.flag
      [] OTHER -> TRUE

Digit(d) ==
    CASE d = 0 -> "0" [] d = 1 -> "1" [] d = 2 -> "2" [] d = 3 -> "3"
      [] d = 4 -> "4" [] d = 5 -> "5" [] d = 6 -> "6" [] d = 7 -> "7"
      [] d = 8 -> "8" [] d = 9 -> "9"

RECURSIVE NatStr(_)
NatStr(n) == IF n < 10 THEN <<Digit(n)>> ELSE NatStr(n \div 10) \o <<Digit(n % 10)>>

\* str(n) for an int
IntStr(n) == IF n < 0 THEN <<"-">> \o NatStr(0 - n) ELSE NatStr(n)

\* str(v), as used by str(value).strip() and by the f-strings
Str(v) ==
    CASE v.kind = "none" -> <<"N", "o", "n", "e">>
      [] v.kind = "str" -> v.text
      [] v.kind = "int" -> IntStr(v.num)
      [] v.kind = "bool" -> IF v.flag THEN <<"T", "r", "u", "e">>
                                      ELSE <<"F", "a", "l", "s", "e">>
      [] OTHER -> v.text

IsSpace(c) == c \in {" ", "\t", "\n"}

RECURSIVE LStrip(_)
LStrip(s) == IF s # <<>> /\ IsSpace(Head(s)) THEN LStrip(Tail(s)) ELSE s

RECURSIVE RStrip(_)
RStrip(s) ==
    IF s # <<>> /\ IsSpace(s[Len(s)]) THEN RStrip(SubSeq(s, 1, Len(s) - 1)) ELSE s

\* str.strip()
Strip(s) == RStrip(LStrip(s))

UpperChar(c) ==
    CASE c = "a" -> "A" [] c = "b" -> "B" [] c = "c" -> "C" [] c = "d" -> "D"
      [] c = "e" -> "E" [] c = "f" -> "F" [] c = "i" -> "I" [] c = "l" -> "L"
      [] c = "r" -> "R" [] OTHER -> c

LowerChar(c) ==
    CASE c = "A" -> "a" [] c = "B" -> "b" [] c = "C" -> "c" [] c = "D" -> "d"
      [] c = "E" -> "e" [] c = "F" -> "f" [] c = "I" -> "i" [] c = "L" -> "l"
      [] c = "R" -> "r" [] c = "T" -> "t" [] c = "H" -> "h" [] OTHER -> c

\* str.upper() and str.lower() over the letters the model uses
Upper(s) == [i \in 1..Len(s) |-> UpperChar(s[i])]
Lower(s) == [i \in 1..Len(s) |-> LowerChar(s[i])]

\* the text literals of the source
LogoText == <<"<", "L", "o", "g", "o", ">">>
PlaceholderText == <<"<", "p", "l", "a", "c", "e", "h", "o", "l", "d", "e", "r", ">">>
SentinelText == <<"r", "e", "t", "u", "r", "n", " ", "\"">> \o PlaceholderText \o <<"\"">>
CalibriText == <<"c", "a", "l", "i", "b", "r", "i">>
BlackHex == <<"#", "0", "0", "0", "0", "0", "0">>
WhiteHex == <<"#", "F", "F", "F", "F", "F", "F">>
LeftText == <<"l", "e", "f", "t">>
BottomText == <<"b", "o", "t", "t", "o", "m">>
CenterText == <<"c", "e", "n", "t", "e", "r">>
VCenterText == <<"v", "c", "e", "n", "t", "e", "r">>

(***************************************************************************)
(* Coordinates and merged ranges (openpyxl's Cell.coordinate and           *)
(* CellRange.coord as the source reads them)                               *)
(***************************************************************************)
ColLetter(c) ==
    CASE c = 1 -> "A" [] c = 2 -> "B" [] c = 3 -> "C" [] c = 4 -> "D"
      [] c = 5 -> "E" [] c = 6 -> "F" [] c = 7 -> "G" [] c = 8 -> "H"

\* cell.coordinate
Coordinate(row, col) == <<ColLetter(col)>> \o NatStr(row)

\* merged_range_obj.coord
RangeCoord(r) ==
    IF r.min_row = r.max_row /\ r.min_col = r.max_col
    THEN Coordinate(r.min_row, r.min_col)
    ELSE Coordinate(r.min_row, r.min_col) \o <<":">> \o Coordinate(r.max_row, r.max_col)

\* s.split(':')[0]
RECURSIVE SplitFirst(_)
SplitFirst(s) ==
    IF s = <<>> \/ Head(s) = ":" THEN <<>> ELSE <<Head(s)>> \o SplitFirst(Tail(s))

\* cell.coordinate in merged_cell_range
InRange(row, col, r) ==
    /\ r.min_row <= row /\ row <= r.max_row
    /\ r.min_col <= col /\ col <= r.max_col

(***************************************************************************)
(* The decoded sheet: cells with a value and a style snapshot, and the     *)
(* merged ranges in the order sheet.merged_cells.ranges yields them        *)
(***************************************************************************)
NoColor == [present |-> FALSE, type |-> "rgb", rgb |-> PyNone]
RgbColor(code) == [present |-> TRUE, type |-> "rgb", rgb |-> PyStr(code)]
ThemeColor == [present |-> TRUE, type |-> "theme", rgb |-> PyNone]
IndexedColor == [present |-> TRUE, type |-> "indexed", rgb |-> PyNone]

NoSide == [style |-> PyNone, color |-> NoColor]
NoBorder == [left |-> NoSide, right |-> NoSide, top |-> NoSide, bottom |-> NoSide]

\* an unstyled cell without a value (what sheet.cell creates on first access)
PlainCell ==
    [value |-> PyNone, has_style |-> FALSE, bold |-> FALSE,
     font_name |-> PyNone, font_size |-> PyNone, font_color |-> NoColor,
     fill_type |-> PyNone, start_color |-> NoColor,
     horizontal |-> PyNone, vertical |-> PyNone, border |-> NoBorder]

\* sheet.cell(row=row, column=col); a coordinate outside the stored grid is a new cell
CellAt(sh, row, col) ==
    IF row \in 1..sh.nrows /\ col \in 1..sh.ncols THEN sh.cells[<<row, col>>] ELSE PlainCell

\* --- Helper Functions ---

RECURSIVE FirstRange(_, _, _)
FirstRange(ranges, row, col) ==
    IF ranges = <<>> THEN [found |-> FALSE, range |-> [min_row |-> 0, min_col |-> 0, max_row |-> 0, max_col |-> 0]]
    ELSE IF InRange(row, col, Head(ranges)) THEN [found |-> TRUE, range |-> Head(ranges)]
    ELSE FirstRange(Tail(ranges), row, col)

get_merged_range_obj(sh, row, col) == FirstRange(sh.ranges, row, col)

\* format_color_hex without the length test
format_color_hex_any_length(argb_hex) ==
    IF argb_hex.kind = "str"
    THEN [ok |-> TRUE, hex |-> <<"#">> \o SubSeq(argb_hex.text, 3, Len(argb_hex.text))]
    ELSE [ok |-> FALSE, hex |-> <<>>]

\* returns [ok, hex]: ok is FALSE for the None result
format_color_hex(argb_hex) ==
    IF argb_hex.kind = "str" /\ Len(argb_hex.text) = 8
    THEN [ok |-> TRUE, hex |-> <<"#">> \o SubSeq(argb_hex.text, 3, Len(argb_hex.text))]
    ELSE [ok |-> FALSE, hex |-> <<>>]

has_border(cell) ==
    \/ Truthy(cell.border.left.style)
    \/ Truthy(cell.border.right.style)
    \/ Truthy(cell.border.top.style)
    \/ Truthy(cell.border.bottom.style)

BorderSides == <<"left", "right", "top", "bottom">>

RECURSIVE BorderColorFrom(_, _)
BorderColorFrom(cell, i) ==
    IF i > Len(BorderSides) THEN [ok |-> FALSE, hex |-> <<>>]
    ELSE LET border_side == cell.border[BorderSides[i]]
             color == format_color_hex(border_side.color.rgb)
         IN  IF /\ border_side.color.present
                /\ border_side.color.type = "rgb"
                /\ color.ok
                /\ color.hex # <<>>
                /\ Upper(color.hex) # BlackHex
             THEN color
             ELSE BorderColorFrom(cell, i + 1)

get_border_color(cell) == BorderColorFrom(cell, 1)

(***************************************************************************)
(* Cell descriptors: a Python dict is the sequence of its items in         *)
(* insertion order; a row entry is None or a dict                          *)
(***************************************************************************)
Item(k, v) == [key |-> k, val |-> v]

HasKey(d, k) == \E i \in 1..Len(d) : d[i].key = k

\* d[k] = v
DictSet(d, k, v) ==
    IF HasKey(d, k)
    THEN [i \in 1..Len(d) |-> IF d[i].key = k THEN Item(k, v) ELSE d[i]]
    ELSE Append(d, Item(k, v))

Null == [isnull |-> TRUE, items |-> <<>>]
Obj(d) == [isnull |-> FALSE, items |-> d]

\* the f-string of the Logo Warning, by its three interpolated parts
LogoWarning(below_value, below_coordinate, logo_coordinate) ==
    [data |-> Str(below_value), below |-> below_coordinate, logo |-> logo_coordinate]

(***************************************************************************)
(* generate_yaml_from_file: the per-cell rules                             *)
(***************************************************************************)
\* sheet[coordinate]: the cell whose coordinate is the given text
CellByCoordinate(sh, coord) ==
    LET pos == CHOOSE p \in (1..sh.nrows) \X (1..sh.ncols) : Coordinate(p[1], p[2]) = coord
    IN  sh.cells[pos]

\* a cell inside a merged range that is not the range's first coordinate
IsFollower(m, row, col) ==
    m.found /\ Coordinate(row, col) # SplitFirst(RangeCoord(m.range))

\* FollowerEntry without the projection of the leader's border
FollowerEntryNoProjection(sh, m) == Null

\* the entry of a merge follower: the leader's border projected, or None
FollowerEntry(sh, m) ==
    LET leader_cell == CellByCoordinate(sh, SplitFirst(RangeCoord(m.range)))
    IN  IF has_border(leader_cell) THEN Obj(<<Item("border", PyInt(1))>>) ELSE Null

\* MergeRule writing only the range's first coordinate
MergeRuleFirstCoordinate(cell_obj, m) ==
    IF m.found THEN DictSet(cell_obj, "merge", PyMerge(SplitFirst(RangeCoord(m.range))))
    ELSE cell_obj

MergeRule(cell_obj, m) ==
    IF m.found THEN DictSet(cell_obj, "merge", PyMerge(RangeCoord(m.range))) ELSE cell_obj

\* the condition under which the logo branch appends its warning
LogoObscures(cell_below) == Truthy(cell_below.value)

\* the value/type rules; returns the dict and the warnings this cell appends
ValueRule(cell_obj, sh, row, col) ==
    LET value == CellAt(sh, row, col).value
        cell_below == CellAt(sh, row + 1, col)
    IN  IF value.kind = "none" THEN [obj |-> cell_obj, warns |-> <<>>]
        ELSE IF Strip(Str(value)) = LogoText
        THEN [obj |-> DictSet(DictSet(cell_obj, "type", PyStr(<<"l", "o", "g", "o">>)),
                              "value", PyBool(TRUE)),
              warns |-> IF LogoObscures(cell_below)
                        THEN <<LogoWarning(cell_below.value, Coordinate(row + 1, col),
                                           Coordinate(row, col))>>
                        ELSE <<>>]
        ELSE IF Strip(Str(value)) = PlaceholderText
        THEN [obj |-> DictSet(DictSet(cell_obj, "type",
                                      PyStr(<<"e", "x", "p", "e", "r", "t">>)),
                              "value", PyStr(SentinelText)),
              warns |-> <<>>]
        ELSE [obj |-> DictSet(cell_obj, "value", value), warns |-> <<>>]

\* bold, font_name, font_size; the sizes of the model are whole numbers, on
\* which int(cell.font.size) changes nothing
FontRule(cell_obj, cell) ==
    LET d1 == IF cell.bold THEN DictSet(cell_obj, "bold", PyBool(TRUE)) ELSE cell_obj
        d2 == IF Truthy(cell.font_name) /\ Lower(cell.font_name.text) # CalibriText
              THEN DictSet(d1, "font_name", PyStr(Lower(cell.font_name.text)))
              ELSE d1
        d3 == IF Truthy(cell.font_size) /\ cell.font_size # PyInt(11)
              THEN DictSet(d2, "font_size", cell.font_size)
              ELSE d2
    IN  d3

FontColorRule(cell_obj, cell) ==
    LET font_color == format_color_hex(cell.font_color.rgb)
    IN  IF /\ cell.font_color.present
           /\ cell.font_color.type = "rgb"
           /\ font_color.ok
           /\ font_color.hex # <<>>
           /\ Upper(font_color.hex) # BlackHex
        THEN DictSet(cell_obj, "font_color", PyStr(font_color.hex))
        ELSE cell_obj

FillRule(cell_obj, cell) ==
    LET bg_color == format_color_hex(cell.start_color.rgb)
    IN  IF /\ cell.fill_type = PyStr(<<"s", "o", "l", "i", "d">>)
           /\ cell.start_color.type = "rgb"
           /\ bg_color.ok
           /\ bg_color.hex # <<>>
           /\ Upper(bg_color.hex) # WhiteHex
        THEN DictSet(cell_obj, "bg_color", PyStr(bg_color.hex))
        ELSE cell_obj

\* AlignRule with the two tests in the other order
AlignRuleVerticalFirst(cell_obj, cell) ==
    LET d1 == IF Truthy(cell.vertical) /\ cell.vertical # PyStr(BottomText)
              THEN DictSet(cell_obj, "valign",
                           IF cell.vertical = PyStr(CenterText)
                           THEN PyStr(VCenterText) ELSE cell.vertical)
              ELSE cell_obj
        d2 == IF Truthy(cell.horizontal) /\ cell.horizontal # PyStr(LeftText)
              THEN DictSet(d1, "align", cell.horizontal)
              ELSE d1
    IN  d2

AlignRule(cell_obj, cell) ==
    LET d1 == IF Truthy(cell.horizontal) /\ cell.horizontal # PyStr(LeftText)
              THEN DictSet(cell_obj, "align", cell.horizontal)
              ELSE cell_obj
        d2 == IF Truthy(cell.vertical) /\ cell.vertical # PyStr(BottomText)
              THEN DictSet(d1, "valign",
                           IF cell.vertical = PyStr(CenterText)
                           THEN PyStr(VCenterText) ELSE cell.vertical)
              ELSE d1
    IN  d2

BorderRule(cell_obj, cell) ==
    IF has_border(cell)
    THEN LET d1 == DictSet(cell_obj, "border", PyInt(1))
             border_color == get_border_color(cell)
         IN  IF border_color.ok /\ border_color.hex # <<>>
             THEN DictSet(d1, "border_color", PyStr(border_color.hex))
             ELSE d1
    ELSE cell_obj

\* the block under "if cell.has_style"
StyleRule(cell_obj, cell) ==
    IF cell.has_style
    THEN BorderRule(AlignRule(FillRule(FontColorRule(FontRule(cell_obj, cell), cell), cell), cell), cell)
    ELSE cell_obj

\* Collapse that appends the dict as it is
CollapseKeepEmpty(cell_obj) == Obj(cell_obj)

\* "if not cell_obj: None else cell_obj"
Collapse(cell_obj) == IF cell_obj = <<>> THEN Null ELSE Obj(cell_obj)

\* one iteration of "for cell in row": the appended entry and the warnings raised
ProcessCell(sh, row, col) ==
    LET cell == CellAt(sh, row, col)
        merged_range_obj == get_merged_range_obj(sh, row, col)
    IN  IF IsFollower(merged_range_obj, row, col)
        THEN [entry |-> FollowerEntry(sh, merged_range_obj), warns |-> <<>>]
        ELSE LET v == ValueRule(MergeRule(<<>>, merged_range_obj), sh, row, col)
             IN  [entry |-> Collapse(StyleRule(v.obj, cell)), warns |-> v.warns]

(***************************************************************************)
(* generate_yaml_from_file: the two passes over the rows                   *)
(***************************************************************************)
Max(a, b) == IF a >= b THEN a ELSE b

\* HasContent that looks at the value only
HasContentValueOnly(cell) == cell.value.kind # "none"

HasContent(cell) == cell.value.kind # "none" \/ cell.has_style

\* first pass: the largest column index of a cell with a value or with style
RECURSIVE MaxColFrom(_, _, _)
MaxColFrom(sh, row, col) ==
    IF row > sh.nrows THEN 0
    ELSE IF col > sh.ncols THEN MaxColFrom(sh, row + 1, 1)
    ELSE LET rest == MaxColFrom(sh, row, col + 1)
         IN  IF HasContent(CellAt(sh, row, col)) THEN Max(col, rest) ELSE rest

MaxColOf(sh) == MaxColFrom(sh, 1, 1)

\* the columns sheet.iter_rows(max_col=m) yields: a max_col of 0 counts as not
\* given, and the rows then run to the sheet's own last column
IterWidth(sh, m) == IF m = 0 THEN sh.ncols ELSE m

is_empty_row(sh, row, width) ==
    \A col \in 1..width :
        CellAt(sh, row, col).value.kind = "none" /\ ~CellAt(sh, row, col).has_style

RECURSIVE RowCells(_, _, _, _)
RowCells(sh, row, col, width) ==
    IF col > width THEN [row_data |-> <<>>, warns |-> <<>>]
    ELSE LET c == ProcessCell(sh, row, col)
             rest == RowCells(sh, row, col + 1, width)
         IN  [row_data |-> <<c.entry>> \o rest.row_data, warns |-> c.warns \o rest.warns]

\* one iteration of "for row in sheet.iter_rows(max_col=max_col)"
RowResult(sh, row, width) ==
    IF is_empty_row(sh, row, width)
    THEN [row_data |-> <<>>, warns |-> <<>>]
    ELSE RowCells(sh, row, 1, width)

(***************************************************************************)
(* build_yaml_string: the document as its sequence of lines; a line is its *)
(* indentation, its fixed text and the interpolated scalar                 *)
(***************************************************************************)
Line(indent, kind, key, scalar) ==
    [indent |-> indent, kind |-> kind, key |-> key, scalar |-> scalar]

Quoted(t) == <<"'">> \o t \o <<"'">>

RenderItem(item) ==
    IF item.key = "merge"
    THEN <<Line(20, "map", "merge", <<>>),
           Line(24, "kv", "from_to", Quoted(item.val.text))>>
    ELSE IF item.key = "type"
    THEN <<Line(20, "kv", item.key, Str(item.val))>>
    ELSE IF item.key = "value" /\ item.val = PyStr(SentinelText)
    THEN <<Line(20, "kv", item.key, Quoted(Str(item.val)))>>
    ELSE IF item.val.kind = "bool"
    THEN <<Line(20, "kv", item.key, Lower(Str(item.val)))>>
    ELSE IF item.val.kind = "int"
    THEN <<Line(20, "kv", item.key, Str(item.val))>>
    ELSE <<Line(20, "kv", item.key, Quoted(Str(item.val)))>>

RECURSIVE RenderItems(_)
RenderItems(items) ==
    IF items = <<>> THEN <<>> ELSE RenderItem(Head(items)) \o RenderItems(Tail(items))

RenderCell(cell) ==
    IF cell.isnull THEN <<Line(16, "null", "- null", <<>>)>>
    ELSE <<Line(16, "dash", "-", <<>>)>> \o RenderItems(cell.items)

RECURSIVE RenderCells(_)
RenderCells(row) ==
    IF row = <<>> THEN <<>> ELSE RenderCell(Head(row)) \o RenderCells(Tail(row))

RenderRow(row) ==
    IF row = <<>> THEN <<Line(12, "empty", "- []", <<>>)>>
    ELSE <<Line(12, "dash", "-", <<>>)>> \o RenderCells(row)

RECURSIVE RenderRows(_)
RenderRows(rows) ==
    IF rows = <<>> THEN <<>> ELSE RenderRow(Head(rows)) \o RenderRows(Tail(rows))

HeaderLines ==
    <<Line(0, "map", "template", <<>>), Line(4, "map", "format", <<>>),
      Line(8, "map", "page_header", <<>>)>>

\* TrailingLines that adds no marker after a blank last row
TrailingLinesUnlessBlank(rows) ==
    IF rows # <<>> /\ rows[Len(rows)] = <<>> THEN <<>>
    ELSE <<Line(12, "empty", "- []", <<>>)>>

\* the final marker, appended whatever the rows were
TrailingLines(rows) == <<Line(12, "empty", "- []", <<>>)>>

build_yaml_string(rows) == HeaderLines \o RenderRows(rows) \o TrailingLines(rows)

(***************************************************************************)
(* The sheets the translation is run on                                    *)
(***************************************************************************)
HeaderText == <<"H", "e", "a", "d", "e", "r">>
TotalText == <<"T", "o", "t", "a", "l">>
ThinText == <<"t", "h", "i", "n">>
SolidText == <<"s", "o", "l", "i", "d">>
ArialText == <<"A", "r", "i", "a", "l">>
TitleCalibriText == <<"C">> \o Tail(CalibriText)

BlackArgb == <<"F", "F", "0", "0", "0", "0", "0", "0">>
ClearBlackArgb == <<"0", "0", "0", "0", "0", "0", "0", "0">>
WhiteArgb == <<"F", "F", "F", "F", "F", "F", "F", "F">>
LowerWhiteArgb == <<"f", "f", "f", "f", "f", "f", "f", "f">>
SampleArgb == <<"F", "F", "A", "A", "B", "B", "C", "C">>
LowerSampleArgb == <<"8", "0", "a", "a", "b", "b", "c", "c">>
RedArgb == <<"F", "F", "F", "F", "0", "0", "0", "0">>
GreenArgb == <<"F", "F", "0", "0", "F", "F", "0", "0">>
BlueArgb == <<"F", "F", "0", "0", "0", "0", "F", "F">>
GreyArgb == <<"F", "F", "8", "0", "8", "0", "8", "0">>
\* codes that are not 8 characters long
ShortCode == <<"A", "A", "B", "B", "C", "C">>
LongCode == SampleArgb \o <<"D">>

Sheet(nrows, ncols, cells, ranges) ==
    [nrows |-> nrows, ncols |-> ncols, cells |-> cells, ranges |-> ranges]

Range(r1, c1, r2, c2) == [min_row |-> r1, min_col |-> c1, max_row |-> r2, max_col |-> c2]

Grid(nrows, ncols) == (1..nrows) \X (1..ncols)

TextCell(t) == [PlainCell EXCEPT !.value = PyStr(t)]
\* flagged as styled, every style field at its default
DefaultStyledCell ==
    [PlainCell EXCEPT !.has_style = TRUE, !.font_name = PyStr(TitleCalibriText),
                      !.font_size = PyInt(11), !.font_color = RgbColor(BlackArgb),
                      !.fill_type = PyStr(SolidText), !.start_color = RgbColor(WhiteArgb),
                      !.horizontal = PyStr(LeftText), !.vertical = PyStr(BottomText)]
BoldCell == [PlainCell EXCEPT !.has_style = TRUE, !.bold = TRUE]
ThinSide == [style |-> PyStr(ThinText), color |-> NoColor]
RedSide == [style |-> PyStr(ThinText), color |-> RgbColor(RedArgb)]
BorderedCell == [PlainCell EXCEPT !.has_style = TRUE, !.border.bottom = ThinSide]

\* the cells the layouts are filled with, by name
NamedCell(n) ==
    CASE n = "plain" -> PlainCell
      [] n = "text" -> TextCell(HeaderText)
      [] n = "default" -> DefaultStyledCell
      [] n = "bold" -> BoldCell
      [] n = "bordered" -> BorderedCell
      [] n = "borderedtext" -> [BorderedCell EXCEPT !.value = PyStr(HeaderText)]
      [] n = "logo" -> TextCell(LogoText)

\* a workbook whose active sheet holds no cell at all
InitEmptySheet == sheet = Sheet(0, 0, [p \in Grid(0, 0) |-> PlainCell], <<>>)

\* rows and blank rows: per row, at most one cell carries a value or style
InitRowSheets ==
    \E nrows \in 1..MaxRows, ncols \in 1..MaxCols :
        \E at \in [1..nrows -> 0..ncols], what \in [1..nrows -> {"text", "default"}] :
            /\ \A r \in 1..nrows : at[r] = 0 => what[r] = "text"
            /\ sheet = Sheet(nrows, ncols,
                             [p \in Grid(nrows, ncols) |->
                                  IF at[p[1]] = p[2] THEN NamedCell(what[p[1]]) ELSE PlainCell],
                             <<>>)

\* one merged range: its anchor, its followers (all alike), and possibly one
\* more cell with text in the last column;
\* the sheet is the decoded grid, so a follower may carry a value or style of
\* its own
InitMergeSheets ==
    \E nrows \in 1..MaxRows, ncols \in 1..MaxCols :
        \E r1 \in 1..nrows, c1 \in 1..ncols, r2 \in 1..nrows, c2 \in 1..ncols :
            \E anchor \in {"plain", "text", "bordered", "borderedtext"},
               follower \in {"plain", "bold", "bordered", "logo"},
               extra \in 0..nrows :
                /\ r1 <= r2 /\ c1 <= c2 /\ (r1 < r2 \/ c1 < c2)
                /\ sheet = Sheet(nrows, ncols,
                                 [p \in Grid(nrows, ncols) |->
                                      IF p[1] = r1 /\ p[2] = c1 THEN NamedCell(anchor)
                                      ELSE IF InRange(p[1], p[2], Range(r1, c1, r2, c2))
                                      THEN NamedCell(follower)
                                      ELSE IF p[1] = extra /\ p[2] = ncols THEN TextCell(TotalText)
                                      ELSE PlainCell],
                                 <<Range(r1, c1, r2, c2)>>)

\* two ranges, one per row, each spanning the whole row
InitTwoRangeSheets ==
    \E ncols \in 2..MaxCols :
        \E a1, a2 \in {"plain", "text", "bordered", "borderedtext"} :
            sheet = Sheet(2, ncols,
                          [p \in Grid(2, ncols) |->
                               IF p[2] = 1 THEN NamedCell(IF p[1] = 1 THEN a1 ELSE a2)
                               ELSE PlainCell],
                          <<Range(1, 1, 1, ncols), Range(2, 1, 2, ncols)>>)

\* a logo cell and the cell below it
LogoTexts == {LogoText, <<" ">> \o LogoText \o <<" ">>}

BelowValues ==
    {PyNone, PyStr(TotalText), PyStr(<<>>), PyInt(0), PyInt(5), PyBool(FALSE), PyBool(TRUE)}

InitLogoSheets ==
    \E nrows \in 1..MaxRows, ncols \in 1..MaxCols :
        \E pos \in Grid(nrows, ncols), t \in LogoTexts, st \in BOOLEAN, b \in BelowValues :
            sheet = Sheet(nrows, ncols,
                          [p \in Grid(nrows, ncols) |->
                               IF p = pos
                               THEN [PlainCell EXCEPT !.value = PyStr(t), !.has_style = st,
                                                      !.bold = st]
                               ELSE IF p = <<pos[1] + 1, pos[2]>>
                               THEN [PlainCell EXCEPT !.value = b]
                               ELSE PlainCell],
                          <<>>)

\* the cell under study at A1 of a sheet of one row and two columns, alone or
\* as the anchor of the range A1:B1
CellSheet(c, merged) ==
    Sheet(1, 2, [p \in Grid(1, 2) |-> IF p[2] = 1 THEN c ELSE PlainCell],
          IF merged THEN <<Range(1, 1, 1, 2)>> ELSE <<>>)

CellValues ==
    {PyNone, PyStr(TotalText), PyStr(PlaceholderText), PyStr(LogoText),
     PyStr(<<" ">> \o PlaceholderText), PyStr(SentinelText), PyInt(14), PyBool(TRUE),
     PyBool(FALSE)}

\* an unstyled cell with each kind of value
InitValueCells ==
    \E v \in CellValues, merged \in BOOLEAN :
        sheet = CellSheet([PlainCell EXCEPT !.value = v], merged)

\* one cell with every combination of emitted keys
InitKeyCells ==
    \E v \in {PyNone, PyStr(TotalText), PyStr(PlaceholderText), PyStr(LogoText)},
       merged \in BOOLEAN, b \in BOOLEAN, fn \in {CalibriText, ArialText}, fs \in {11, 14},
       fc \in {BlackArgb, SampleArgb}, ft \in {PyNone, PyStr(SolidText)},
       h \in {PyNone, PyStr(CenterText)}, va \in {PyNone, PyStr(CenterText)},
       bd \in {NoSide, ThinSide, RedSide} :
        sheet = CellSheet([PlainCell EXCEPT !.value = v, !.has_style = TRUE, !.bold = b,
                                            !.font_name = PyStr(fn), !.font_size = PyInt(fs),
                                            !.font_color = RgbColor(fc), !.fill_type = ft,
                                            !.start_color = RgbColor(SampleArgb),
                                            !.horizontal = h, !.vertical = va,
                                            !.border.left = bd],
                          merged)

\* one styled cell, one group of style attributes away from the unset style
StyledBase == [PlainCell EXCEPT !.has_style = TRUE]

Colors ==
    {NoColor, ThemeColor, IndexedColor, [present |-> TRUE, type |-> "rgb", rgb |-> PyNone]}
    \cup {RgbColor(c) : c \in {BlackArgb, ClearBlackArgb, WhiteArgb, LowerWhiteArgb, SampleArgb,
                               LowerSampleArgb, ShortCode, LongCode}}

SideColors(own) == {NoColor, ThemeColor, RgbColor(BlackArgb), RgbColor(own)}
SideStyles == {PyNone, PyStr(ThinText)}

InitFontCells ==
    \E v \in {PyNone, PyStr(TotalText)},
       fn \in {PyNone, PyStr(CalibriText), PyStr(Upper(CalibriText)), PyStr(TitleCalibriText),
               PyStr(ArialText)},
       fs \in {PyNone, PyInt(0), PyInt(11), PyInt(14)}, b \in BOOLEAN :
        sheet = CellSheet([StyledBase EXCEPT !.value = v, !.font_name = fn, !.font_size = fs,
                                             !.bold = b], FALSE)

InitColorCells ==
    \E v \in {PyNone, PyStr(TotalText)}, fc \in Colors, bg \in Colors,
       ft \in {PyNone, PyStr(SolidText), PyStr(<<"g", "r", "a", "y">>)} :
        sheet = CellSheet([StyledBase EXCEPT !.value = v, !.font_color = fc, !.fill_type = ft,
                                             !.start_color = bg], FALSE)

InitAlignCells ==
    \E v \in {PyNone, PyStr(TotalText)},
       h \in {PyNone, PyStr(LeftText), PyStr(CenterText), PyStr(<<"r", "i", "g", "h", "t">>)},
       va \in {PyNone, PyStr(BottomText), PyStr(CenterText), PyStr(<<"t", "o", "p">>)} :
        sheet = CellSheet([StyledBase EXCEPT !.value = v, !.horizontal = h, !.vertical = va],
                          FALSE)

InitBorderCells ==
    \E ls, rs, ts, bs \in SideStyles :
        \E lc \in SideColors(RedArgb), rc \in SideColors(GreenArgb),
           tc \in SideColors(BlueArgb), bc \in SideColors(GreyArgb) :
            sheet = CellSheet([StyledBase EXCEPT
                                   !.border = [left |-> [style |-> ls, color |-> lc],
                                               right |-> [style |-> rs, color |-> rc],
                                               top |-> [style |-> ts, color |-> tc],
                                               bottom |-> [style |-> bs, color |-> bc]]],
                              FALSE)

InitDefaultStyled ==
    \E v \in {PyNone, PyStr(TotalText)}, merged \in BOOLEAN :
        sheet = CellSheet([DefaultStyledCell EXCEPT !.value = v], merged)

InitSheet ==
    \/ InitEmptySheet
    \/ InitRowSheets
    \/ InitMergeSheets
    \/ InitTwoRangeSheets
    \/ InitLogoSheets
    \/ InitValueCells
    \/ InitKeyCells
    \/ InitFontCells
    \/ InitColorCells
    \/ InitAlignCells
    \/ InitBorderCells
    \/ InitDefaultStyled

(***************************************************************************)
(* The run of generate_yaml_from_file on one sheet                         *)
(***************************************************************************)
Init ==
    /\ InitSheet
    /\ pc = "measure"
    /\ max_col = 0
    /\ row_idx = 1
    /\ all_rows_data = <<>>
    /\ warnings = <<>>
    /\ yaml_string = <<>>

\* AppendRow that skips a blank row
AppendRowSkipBlank(rows, row_data) == IF row_data = <<>> THEN rows ELSE Append(rows, row_data)

\* all_rows_data.append(row_data), for a blank row and for a row of entries
AppendRow(rows, row_data) == Append(rows, row_data)

\* lines 107-112: the pass that finds max_col
Measure ==
    /\ pc = "measure"
    /\ max_col' = MaxColOf(sheet)
    /\ pc' = "rows"
    /\ UNCHANGED <<sheet, row_idx, all_rows_data, warnings, yaml_string>>

\* lines 114-185: one row of the second pass
ProcessRow ==
    /\ pc = "rows"
    /\ row_idx <= sheet.nrows
    /\ LET r == RowResult(sheet, row_idx, IterWidth(sheet, max_col))
       IN  /\ all_rows_data' = AppendRow(all_rows_data, r.row_data)
           /\ warnings' = warnings \o r.warns
    /\ row_idx' = row_idx + 1
    /\ UNCHANGED <<sheet, pc, max_col, yaml_string>>

\* lines 187-190: the rows are exhausted, the document is built and returned
BuildYaml ==
    /\ pc = "rows"
    /\ row_idx > sheet.nrows
    /\ yaml_string' = build_yaml_string(all_rows_data)
    /\ pc' = "done"
    /\ UNCHANGED <<sheet, max_col, row_idx, all_rows_data, warnings>>

Next == Measure \/ ProcessRow \/ BuildYaml

Spec == Init /\ [][Next]_vars

(***************************************************************************)
(* Vocabulary of the properties, stated on the sheet and on the outputs    *)
(***************************************************************************)
Done == pc = "done"

\* the positions of the entries emitted so far
Emitted ==
    {p \in Grid(sheet.nrows, sheet.ncols) :
        p[1] <= Len(all_rows_data) /\ p[2] <= Len(all_rows_data[p[1]])}

EntryAt(p) == all_rows_data[p[1]][p[2]]

Cell(p) == sheet.cells[p]

Absent(v) == v.kind = "none"

Unmarked(c) == Absent(c.value) /\ ~c.has_style

\* effective column count: the largest column of a cell with a value or style
EffectiveWidth ==
    LET cols == {p[2] : p \in {q \in Grid(sheet.nrows, sheet.ncols) : ~Unmarked(Cell(q))}}
    IN  IF cols = {} THEN 0 ELSE CHOOSE m \in cols : \A c \in cols : c <= m

BlankRow(r) == \A c \in 1..EffectiveWidth : Unmarked(Cell(<<r, c>>))

RangesAt(p) == {i \in DOMAIN sheet.ranges :
                    /\ sheet.ranges[i].min_row <= p[1] /\ p[1] <= sheet.ranges[i].max_row
                    /\ sheet.ranges[i].min_col <= p[2] /\ p[2] <= sheet.ranges[i].max_col}

Anchor(rg) == <<rg.min_row, rg.min_col>>

Follower(p) == \E i \in RangesAt(p) : p # Anchor(sheet.ranges[i])

SideSet(c) == {c.border.left, c.border.right, c.border.top, c.border.bottom}

Bordered(c) == \E sd \in SideSet(c) : ~Absent(sd.style)

KeysOf(e) == [i \in 1..Len(e.items) |-> e.items[i].key]

ValueOf(e, k) == (CHOOSE it \in {e.items[i] : i \in 1..Len(e.items)} : it.key = k).val

Has(e, k) == \E i \in 1..Len(e.items) : e.items[i].key = k

\* the document read back: the row entry and the cell entry a line belongs to
RowEntries == SelectSeq(yaml_string, LAMBDA ln : ln.indent = 12)

RowOf(i) == Cardinality({j \in 1..i : yaml_string[j].indent = 12})

CellOf(i) ==
    LET r == RowOf(i)
    IN  Cardinality({j \in 1..i : yaml_string[j].indent = 16 /\ RowOf(j) = r})

\* the lines of the mapping rendered for the cell at p
KeyLines(p) ==
    {i \in DOMAIN yaml_string :
        yaml_string[i].indent = 20 /\ RowOf(i) = p[1] /\ CellOf(i) = p[2]}

TrimmedIs(v, t) ==
    /\ v.kind = "str"
    /\ \E i, j \in 1..Len(v.text) :
        /\ SubSeq(v.text, i, j) = t
        /\ \A k \in 1..Len(v.text) : (k < i \/ k > j) => v.text[k] = " "

(***************************************************************************)
(* C1: for every cell whose trimmed text is <placeholder>, the descriptor  *)
(* is {type: expert, value: return "<placeholder>"} and the document       *)
(* renders that value line without surrounding single quotes.              *)
(***************************************************************************)
C1_PlaceholderUnquoted ==
    Done =>
        \A p \in Emitted :
            (~Follower(p) /\ TrimmedIs(Cell(p).value, PlaceholderText)) =>
                /\ ~EntryAt(p).isnull
                /\ Has(EntryAt(p), "type") /\ Has(EntryAt(p), "value")
                /\ ValueOf(EntryAt(p), "type").text = <<"e", "x", "p", "e", "r", "t">>
                /\ ValueOf(EntryAt(p), "value").text = SentinelText
                /\ \E i \in KeyLines(p) :
                    yaml_string[i].key = "value" /\ yaml_string[i].scalar = SentinelText

(***************************************************************************)
(* C2: the row entries under page_header end with one empty-sequence entry *)
(* appended after the entries of the sheet's rows, also when the last row  *)
(* is blank (the document then ends with two empty entries).               *)
(***************************************************************************)
C2_TrailingMarker ==
    Done =>
        /\ Len(RowEntries) = sheet.nrows + 1
        /\ RowEntries[Len(RowEntries)].kind = "empty"
        /\ yaml_string[Len(yaml_string)] = RowEntries[Len(RowEntries)]
        /\ \A r \in 1..sheet.nrows : (RowEntries[r].kind = "empty") <=> BlankRow(r)

C2_Witness ==
    /\ Done
    /\ sheet.nrows >= 2
    /\ ~BlankRow(1)
    /\ BlankRow(sheet.nrows)
    /\ RowEntries[Len(RowEntries)].kind = "empty"
    /\ RowEntries[Len(RowEntries) - 1].kind = "empty"
    /\ Len(RowEntries) = sheet.nrows + 1

(***************************************************************************)
(* C3 as stated: for a one-row merged range whose anchor holds a value and *)
(* has no border, and whose other cells have no value and no style, the    *)
(* emitted row has the anchor's descriptor with merge.from_to equal to the *)
(* span, followed by one null entry for every follower column.             *)
(***************************************************************************)
HorizontalCase(rg) ==
    /\ rg.min_row = rg.max_row
    /\ rg.min_col < rg.max_col
    /\ ~Absent(Cell(Anchor(rg)).value)
    /\ ~Bordered(Cell(Anchor(rg)))
    /\ \A c \in (rg.min_col + 1)..rg.max_col : Unmarked(Cell(<<rg.min_row, c>>))

Span(rg) ==
    <<ColLetter(rg.min_col)>> \o NatStr(rg.min_row) \o <<":">>
    \o <<ColLetter(rg.max_col)>> \o NatStr(rg.max_row)

AnchorEmitted(rg) ==
    /\ Anchor(rg) \in Emitted
    /\ ~EntryAt(Anchor(rg)).isnull
    /\ KeysOf(EntryAt(Anchor(rg)))[1] = "merge"
    /\ ValueOf(EntryAt(Anchor(rg)), "merge").text = Span(rg)
    /\ Has(EntryAt(Anchor(rg)), "value")

C3_NullPerFollowerColumn ==
    \A i \in DOMAIN sheet.ranges :
        LET rg == sheet.ranges[i]
        IN  (HorizontalCase(rg) /\ rg.min_row <= Len(all_rows_data)) =>
                /\ AnchorEmitted(rg)
                /\ \A c \in (rg.min_col + 1)..rg.max_col :
                    /\ <<rg.min_row, c>> \in Emitted
                    /\ EntryAt(<<rg.min_row, c>>) = Null

(***************************************************************************)
(* C3 as amended: the anchor's descriptor is followed by one null entry    *)
(* for every follower column up to the effective column count; follower    *)
(* columns beyond it are not emitted.                                      *)
(***************************************************************************)
C3_NullPerFollowerColumnWithinWidth ==
    \A i \in DOMAIN sheet.ranges :
        LET rg == sheet.ranges[i]
        IN  (HorizontalCase(rg) /\ rg.min_row <= Len(all_rows_data)) =>
                /\ AnchorEmitted(rg)
                /\ Len(all_rows_data[rg.min_row]) = EffectiveWidth
                /\ \A c \in (rg.min_col + 1)..rg.max_col :
                    IF c <= EffectiveWidth
                    THEN EntryAt(<<rg.min_row, c>>) = Null
                    ELSE <<rg.min_row, c>> \notin Emitted

\* A1:C1 merged, "Header" in A1, nothing else: one entry, no nulls
C3_Witness ==
    /\ Done
    /\ sheet.nrows = 1 /\ sheet.ncols = 3
    /\ sheet.ranges = <<Range(1, 1, 1, 3)>>
    /\ HorizontalCase(sheet.ranges[1])
    /\ Cell(<<1, 1>>).value = PyStr(HeaderText)
    /\ all_rows_data =
        <<<<Obj(<<Item("merge", PyMerge(<<"A", "1", ":", "C", "1">>)),
                  Item("value", PyStr(HeaderText))>>)>>>>

(***************************************************************************)
(* C4: a cell whose trimmed text is <Logo> gets type: logo and value: true *)
(* and a Logo Warning is appended if and only if the cell below it has a   *)
(* non-absent value of any kind (0, false and empty text included); the    *)
(* warning names the lower cell's content and coordinate and the logo      *)
(* cell's coordinate.                                                      *)
(***************************************************************************)
Below(p) == <<p[1] + 1, p[2]>>

BelowValue(p) ==
    IF Below(p) \in Grid(sheet.nrows, sheet.ncols) THEN Cell(Below(p)).value ELSE PyNone

WarningsFor(p) ==
    {i \in DOMAIN warnings :
        warnings[i].logo = <<ColLetter(p[2])>> \o NatStr(p[1])}

C4_LogoWarningIffBelowPresent ==
    \A p \in Emitted :
        (~Follower(p) /\ TrimmedIs(Cell(p).value, LogoText)) =>
            /\ ~EntryAt(p).isnull
            /\ Has(EntryAt(p), "type") /\ Has(EntryAt(p), "value")
            /\ ValueOf(EntryAt(p), "type").text = <<"l", "o", "g", "o">>
            /\ ValueOf(EntryAt(p), "value") = PyBool(TRUE)
            /\ (WarningsFor(p) # {}) <=> ~Absent(BelowValue(p))
            /\ \A i \in WarningsFor(p) :
                /\ warnings[i].below = <<ColLetter(p[2])>> \o NatStr(p[1] + 1)
                /\ warnings[i].data = Str(BelowValue(p))

(***************************************************************************)
(* C5: a cell with an absent value, in no merged range, whose style fields *)
(* all equal the defaults has the descriptor null, never an empty mapping, *)
(* whether or not it is flagged as having style.                           *)
(***************************************************************************)
IsBlackOrUnset(co) ==
    \/ ~co.present
    \/ co.type = "rgb" /\ co.rgb.kind = "str" /\ Len(co.rgb.text) = 8
       /\ SubSeq(co.rgb.text, 3, 8) = <<"0", "0", "0", "0", "0", "0">>

IsWhiteOrNotSolidRgb(c) ==
    \/ c.fill_type # PyStr(SolidText)
    \/ c.start_color.type # "rgb"
    \/ c.start_color.rgb.kind = "str" /\ Len(c.start_color.rgb.text) = 8
       /\ Lower(SubSeq(c.start_color.rgb.text, 3, 8)) = <<"f", "f", "f", "f", "f", "f">>

AllDefaults(c) ==
    /\ ~c.bold
    /\ Absent(c.font_name) \/ Lower(c.font_name.text) = CalibriText
    /\ Absent(c.font_size) \/ c.font_size = PyInt(11)
    /\ IsBlackOrUnset(c.font_color)
    /\ IsWhiteOrNotSolidRgb(c)
    /\ Absent(c.horizontal) \/ c.horizontal = PyStr(LeftText)
    /\ Absent(c.vertical) \/ c.vertical = PyStr(BottomText)
    /\ ~Bordered(c)
    /\ \A sd \in SideSet(c) : IsBlackOrUnset(sd.color)

C5_DefaultStyleIsNull ==
    \A p \in Emitted :
        (Absent(Cell(p).value) /\ RangesAt(p) = {} /\ AllDefaults(Cell(p))) =>
            EntryAt(p) = Null

C5_Witness ==
    \E p \in Emitted :
        /\ Cell(p).has_style
        /\ Cell(p).font_size = PyInt(11)
        /\ Cell(p).font_color = RgbColor(BlackArgb)
        /\ Cell(p).start_color = RgbColor(WhiteArgb)
        /\ Absent(Cell(p).value) /\ RangesAt(p) = {} /\ AllDefaults(Cell(p))
        /\ EntryAt(p) = Null

(***************************************************************************)
(* C6: a merge follower emitted in a row is exactly {border: 1} when the   *)
(* range's anchor cell has a border style on some side, and null           *)
(* otherwise; its own value and style add no key, and no Logo Warning is   *)
(* raised for a follower.                                                  *)
(***************************************************************************)
AnchorOf(p) == Anchor(sheet.ranges[CHOOSE i \in RangesAt(p) : TRUE])

C6_FollowerEntry ==
    \A p \in Emitted :
        Follower(p) =>
            /\ EntryAt(p) = IF Bordered(Cell(AnchorOf(p)))
                            THEN [isnull |-> FALSE,
                                  items |-> <<[key |-> "border", val |-> PyInt(1)]>>]
                            ELSE Null
            /\ WarningsFor(p) = {}

\* a follower holding <Logo> above a value, under an anchor with a border
C6_Witness ==
    \E p \in Emitted :
        /\ Follower(p)
        /\ Cell(p).value = PyStr(LogoText)
        /\ ~Absent(BelowValue(p))
        /\ Bordered(Cell(AnchorOf(p)))
        /\ KeysOf(EntryAt(p)) = <<"border">>
        /\ warnings = <<>>

(***************************************************************************)
(* C7: font_color, bg_color and border_color are emitted only for a        *)
(* direct-RGB colour of 8 hex digits, as '#' and the last six digits, and  *)
(* never when that equals the default (#000000 for font and border,        *)
(* #FFFFFF for fill) compared case-insensitively; a theme or indexed       *)
(* colour, or a code that is not 8 characters long, yields no key.         *)
(***************************************************************************)
\* the key's value v is the conversion of the source colour co, and not the default
ConvertedFrom(v, co, default) ==
    /\ co.present
    /\ co.type = "rgb"
    /\ co.rgb.kind = "str"
    /\ Len(co.rgb.text) = 8
    /\ v = PyStr(<<"#", co.rgb.text[3], co.rgb.text[4], co.rgb.text[5], co.rgb.text[6],
                   co.rgb.text[7], co.rgb.text[8]>>)
    /\ Lower(v.text) # Lower(default)

C7_ColorKeys ==
    \A p \in Emitted :
        ~Follower(p) =>
            LET e == EntryAt(p)
                c == Cell(p)
            IN  /\ Has(e, "font_color") =>
                    ConvertedFrom(ValueOf(e, "font_color"), c.font_color, BlackHex)
                /\ Has(e, "bg_color") =>
                    /\ c.fill_type = PyStr(SolidText)
                    /\ ConvertedFrom(ValueOf(e, "bg_color"), c.start_color, WhiteHex)
                /\ Has(e, "border_color") =>
                    \E sd \in SideSet(c) :
                        ConvertedFrom(ValueOf(e, "border_color"), sd.color, BlackHex)

\* FFAABBCC gives #AABBCC
C7_Witness ==
    \E p \in Emitted :
        /\ Cell(p).font_color = RgbColor(SampleArgb)
        /\ Has(EntryAt(p), "font_color")
        /\ ValueOf(EntryAt(p), "font_color") = PyStr(<<"#", "A", "A", "B", "B", "C", "C">>)

(***************************************************************************)
(* C8: with W the largest column of a cell with a value or style, every    *)
(* emitted row entry is the empty sequence exactly when every cell of the  *)
(* row in columns 1..W has no value and no style, and otherwise has        *)
(* exactly W entries in column order; no column beyond W appears.          *)
(***************************************************************************)
C8_RowWidth ==
    LET w == EffectiveWidth
    IN  /\ \A r \in 1..Len(all_rows_data) :
            /\ (all_rows_data[r] = <<>>) <=> (\A c \in 1..w : Unmarked(Cell(<<r, c>>)))
            /\ all_rows_data[r] # <<>> => Len(all_rows_data[r]) = w
        /\ \A p \in Emitted :
            /\ (~Follower(p) /\ ~Absent(Cell(p).value)) => Has(EntryAt(p), "value")
            /\ Unmarked(Cell(p)) /\ RangesAt(p) = {} => EntryAt(p) = Null
        /\ Done => \A i \in DOMAIN yaml_string :
                     yaml_string[i].indent >= 16 => CellOf(i) <= w

\* a row narrower than the sheet, with a blank row beside it
C8_Witness ==
    /\ Done
    /\ EffectiveWidth > 0 /\ EffectiveWidth < sheet.ncols
    /\ \E r, q \in 1..Len(all_rows_data) :
        /\ all_rows_data[r] = <<>>
        /\ Len(all_rows_data[q]) = EffectiveWidth
        /\ EffectiveWidth > 1

(***************************************************************************)
(* C9: the keys of every emitted descriptor appear, each at most once, in  *)
(* the order merge, type, value, bold, font_name, font_size, font_color,   *)
(* bg_color, align, valign, border, border_color, in the descriptor and in *)
(* the rendered document; border_color only directly after border.         *)
(***************************************************************************)
KeyOrder ==
    <<"merge", "type", "value", "bold", "font_name", "font_size", "font_color", "bg_color",
      "align", "valign", "border", "border_color">>

Rank(k) == CHOOSE i \in DOMAIN KeyOrder : KeyOrder[i] = k

InKeyOrder(keys) ==
    /\ \A i \in DOMAIN keys : keys[i] \in {KeyOrder[j] : j \in DOMAIN KeyOrder}
    /\ \A i, j \in DOMAIN keys : i < j => Rank(keys[i]) < Rank(keys[j])
    /\ \A i \in DOMAIN keys :
        keys[i] = "border_color" => i > 1 /\ keys[i - 1] = "border"

C9_KeyOrder ==
    /\ \A p \in Emitted : InKeyOrder(KeysOf(EntryAt(p)))
    /\ Done => \A p \in Emitted :
                 LET lines == KeyLines(p)
                 IN  /\ Cardinality(lines) = Len(EntryAt(p).items)
                     /\ \A i, j \in lines :
                         i < j => Rank(yaml_string[i].key) < Rank(yaml_string[j].key)

\* a descriptor with all twelve keys, rendered
C9_Witness ==
    /\ Done
    /\ \E p \in Emitted :
        /\ KeysOf(EntryAt(p)) = KeyOrder
        /\ Cardinality(KeyLines(p)) = Len(KeyOrder)

(***************************************************************************)
(* C10: when some cell has a value or style, page_header holds one entry   *)
(* per sheet row, in row order, and the trailing empty entry; blank rows   *)
(* in the middle or at the end are neither dropped nor merged, and a step  *)
(* that appends a Logo Warning adds exactly one row entry and changes no   *)
(* earlier one.                                                            *)
(***************************************************************************)
SomeContent == \E p \in Grid(sheet.nrows, sheet.ncols) : ~Unmarked(Cell(p))

\* what identifies row r in its entry: which columns hold a mapping
Shape(r) == {c \in 1..Len(all_rows_data[r]) : ~all_rows_data[r][c].isnull}

C10_RowsSoFar ==
    SomeContent =>
        /\ pc = "rows" => Len(all_rows_data) = row_idx - 1
        /\ \A r \in 1..Len(all_rows_data) :
            /\ (all_rows_data[r] = <<>>) <=> BlankRow(r)
            /\ \A c \in 1..EffectiveWidth :
                (~Follower(<<r, c>>) /\ ~Absent(Cell(<<r, c>>).value)) => c \in Shape(r)
        /\ Done =>
            /\ Len(all_rows_data) = sheet.nrows
            /\ Len(RowEntries) = sheet.nrows + 1
            /\ \A r \in 1..sheet.nrows :
                /\ (RowEntries[r].kind = "empty") <=> (all_rows_data[r] = <<>>)
                /\ \A c \in Shape(r) : KeyLines(<<r, c>>) # {}

C10_WarningStep ==
    Len(warnings') > Len(warnings) =>
        /\ Len(all_rows_data') = Len(all_rows_data) + 1
        /\ SubSeq(all_rows_data', 1, Len(all_rows_data)) = all_rows_data
        /\ all_rows_data'[Len(all_rows_data')] # <<>>

C10_Rows == [](C10_RowsSoFar) /\ [][C10_WarningStep]_vars

\* a blank row in the middle, kept between the entries of its neighbours
C10_Witness ==
    /\ Done
    /\ sheet.nrows >= 3
    /\ \E r \in 2..(sheet.nrows - 1) : all_rows_data[r] = <<>> /\ all_rows_data[r + 1] # <<>>
    /\ Len(RowEntries) = sheet.nrows + 1

====
